---- MODULE Spec2Model ----
(***************************************************************************)
(* Product analytics dashboard (src/app.py): the stored-data blob, the     *)
(* upload callback that writes it, the five callbacks that read it, and    *)
(* the two helpers calculate_metrics and forecast_metrics.                 *)
(*                                                                         *)
(* Numbers are numpy float64 values modelled as exact extended rationals   *)
(* [n, d]: d > 0 is the finite value n/d in lowest terms, d = 0 is +inf    *)
(* (n = 1), -inf (n = -1) or NaN (n = 0).  Rounding error is not           *)
(* modelled; division by zero, inf and NaN follow IEEE 754 as numpy does   *)
(* (the cells of df.iloc[-1] are numpy scalars, so x / 0 warns and yields  *)
(* inf or NaN rather than raising).                                        *)
(*                                                                         *)
(* A callback is one atomic step: it is scheduled when one of its Input    *)
(* properties is set, reads the current value of its inputs when it runs,  *)
(* and sets its Output components when it returns.  When it raises, its    *)
(* outputs keep what they showed.  Scheduled callbacks run in any order.   *)
(*                                                                         *)
(* Three specifications: Spec is the whole dashboard; SpecIngest is the     *)
(* ingestion path (uploads and update_data) over more shapes of file;      *)
(* SpecCalc applies update_kpis and update_forecast to every frame of a    *)
(* bounded family.                                                         *)
(***************************************************************************)
EXTENDS Integers, Sequences, FiniteSets, TLC

VARIABLES
    contents,       \* dcc.Upload 'contents' (and 'filename'): None or the uploaded file
    uploads,        \* number of files dropped on the upload widget so far
    stored,         \* dcc.Store 'stored-data'.data: the JSON blob
    upload_status,  \* 'upload-status'.children
    growth_slider,  \* 'growth-slider'.value, in tenths
    months_slider,  \* 'months-slider'.value
    out,            \* the rendered outputs: KPI panel and the four figures
    raised,         \* per callback, the exception its last run let escape ("none" if it returned)
    pending         \* callbacks the renderer has scheduled and not yet run

vars == <<contents, uploads, stored, upload_status, growth_slider, months_slider,
          out, raised, pending>>

(***************************** bounds **************************************)
MaxUploads == 1     \* files uploaded in one session (reactive specification)
MaxIngests == 2     \* files uploaded in one session (ingestion specification)
MaxMonths == 2      \* horizons of the calculator specification: 1..MaxMonths
ExtraRows == 1      \* calculator specification: rows beyond the trailing window
ZeroRows == 3       \* calculator specification: frames up to this length may hold a zero MAU

(*********************** program constants *********************************)
Window == 6             \* df_sorted.tail(6)
StepDays == 30          \* timedelta(days=30*i)
Percent == 100          \* "* 100" in calculate_metrics
DefaultGrowth == 10     \* growth-slider value=1.0, in tenths
DefaultMonths == 6      \* months-slider value=6
SliderTenths == 10      \* growth-slider step=0.1: one tenth

None == "None"

(************************ float64 arithmetic *******************************)
Abs(x) == IF x < 0 THEN -x ELSE x
Sign(x) == IF x > 0 THEN 1 ELSE IF x < 0 THEN -1 ELSE 0

RECURSIVE Gcd(_, _)
Gcd(a, b) == IF b = 0 THEN a ELSE Gcd(b, a % b)

\* the float n/d (d may be 0 or negative), in lowest terms
Num(n, d) ==
    IF d = 0 THEN [n |-> Sign(n), d |-> 0]
    ELSE LET g == Gcd(Abs(n), Abs(d))
         IN  [n |-> Sign(n) * Sign(d) * (Abs(n) \div g), d |-> Abs(d) \div g]

Float(i) == [n |-> i, d |-> 1]
NaN == [n |-> 0, d |-> 0]
IsNaN(x) == x.d = 0 /\ x.n = 0
IsInf(x) == x.d = 0 /\ x.n # 0
IsFinite(x) == x.d > 0

Add(x, y) ==
    IF IsNaN(x) \/ IsNaN(y) THEN NaN
    ELSE IF IsInf(x) THEN (IF IsInf(y) /\ y.n # x.n THEN NaN ELSE x)
    ELSE IF IsInf(y) THEN y
    ELSE Num(x.n * y.d + y.n * x.d, x.d * y.d)

Neg(x) == [n |-> -x.n, d |-> x.d]
Sub(x, y) == Add(x, Neg(y))

Mul(x, y) ==
    IF IsNaN(x) \/ IsNaN(y) THEN NaN
    ELSE IF IsInf(x) \/ IsInf(y) THEN [n |-> Sign(x.n) * Sign(y.n), d |-> 0]
    ELSE Num(x.n * y.n, x.d * y.d)

\* true division; x/0 is inf with x's sign and 0/0 is NaN, as numpy divides
Div(x, y) ==
    IF IsNaN(x) \/ IsNaN(y) THEN NaN
    ELSE IF IsInf(y) THEN (IF IsInf(x) THEN NaN ELSE Float(0))
    ELSE IF IsInf(x) THEN [n |-> x.n * (IF y.n < 0 THEN -1 ELSE 1), d |-> 0]
    ELSE Num(x.n * y.d, x.d * y.n)

\* x ** i for an integer i >= 0
RECURSIVE Pow(_, _)
Pow(x, i) == IF i = 0 THEN Float(1) ELSE Mul(x, Pow(x, i - 1))

\* f"{x:.kf}": the decimal with k digits nearest to x (ties to even), as the
\* integer x * 10^k rounded; inf and nan print as words
RECURSIVE Ten(_)
Ten(k) == IF k = 0 THEN 1 ELSE 10 * Ten(k - 1)

RoundHalfEven(n, d) ==
    LET q == n \div d
        r == n % d
    IN  IF 2 * r < d THEN q
        ELSE IF 2 * r > d THEN q + 1
        ELSE IF q % 2 = 0 THEN q ELSE q + 1

format_f(x, k) ==
    IF IsNaN(x) THEN [text |-> "nan", digits |-> 0]
    ELSE IF IsInf(x) THEN [text |-> IF x.n > 0 THEN "inf" ELSE "-inf", digits |-> 0]
    ELSE [text |-> "number", digits |-> RoundHalfEven(x.n * Ten(k), x.d)]

(*************************** DataFrames ***********************************)
\* A DataFrame is [rows, text]: rows is the sequence of records in file
\* order, text names the one column read_csv left as strings (dtype object)
\* because a cell of it is not a number, or "none".
MetricColumns == {"monthly_active_users", "monthly_revenue", "new_signups",
                  "churned_users", "conversion_rate"}

Row(d, mau, rev, signups, churned, conv) ==
    [date |-> d, monthly_active_users |-> mau, monthly_revenue |-> rev,
     new_signups |-> signups, churned_users |-> churned, conversion_rate |-> conv]

DataFrame(rows, text) == [rows |-> rows, text |-> text]

\* sample_data.csv as load_default_data reads it: monthly records in date order
load_default_data == DataFrame(<<Row(1, 1, 1, 1, 0, 2), Row(2, 3, 3, 1, 1, 2)>>, "none")

df_default == load_default_data

\* df.to_json(date_format='iso', orient='split'): columns, index and data arrays
Columns == <<"date", "monthly_active_users", "monthly_revenue", "new_signups",
             "churned_users", "conversion_rate">>

to_json(df) ==
    [columns |-> Columns,
     index |-> [i \in 1..Len(df.rows) |-> i - 1],
     data |-> [i \in 1..Len(df.rows) |->
                  <<df.rows[i].date, df.rows[i].monthly_active_users,
                    df.rows[i].monthly_revenue, df.rows[i].new_signups,
                    df.rows[i].churned_users, df.rows[i].conversion_rate>>],
     text |-> df.text]

\* pd.read_json(jsonified_data, orient='split')
read_json(json) ==
    DataFrame([i \in 1..Len(json.data) |->
                  Row(json.data[i][1], json.data[i][2], json.data[i][3],
                      json.data[i][4], json.data[i][5], json.data[i][6])],
              json.text)

(************************* calculate_metrics *******************************)
Raise(e) == [exc |-> e, val |-> None]
Return(v) == [exc |-> "none", val |-> v]

\* (latest - previous) / previous * 100
pct_of_previous(latest, previous) ==
    Mul(Div(Sub(Float(latest), Float(previous)), Float(previous)), Float(Percent))

calculate_metrics(df) ==
    IF Len(df.rows) < 2 THEN Raise("IndexError")        \* df.iloc[-1], df.iloc[-2]
    ELSE IF df.text \in {"monthly_active_users", "monthly_revenue", "churned_users"}
    THEN Raise("TypeError")                             \* arithmetic on str cells
    ELSE
        LET latest == df.rows[Len(df.rows)]
            previous == df.rows[Len(df.rows) - 1]
        IN  Return(
              [mau |-> Float(latest.monthly_active_users),
               mau_change |-> pct_of_previous(latest.monthly_active_users,
                                              previous.monthly_active_users),
               revenue |-> Float(latest.monthly_revenue),
               revenue_change |-> pct_of_previous(latest.monthly_revenue,
                                                  previous.monthly_revenue),
               churn_rate |-> Mul(Div(Float(latest.churned_users),
                                      Float(previous.monthly_active_users)),
                                  Float(Percent)),
               conversion |-> Float(latest.conversion_rate)])

(************************** forecast_metrics *******************************)
\* df.sort_values('date'): quicksort is not stable, so every order of the
\* rows that is ascending by date is a possible result
RECURSIVE SortsOf(_, _)
SortsOf(rows, idx) ==
    IF idx = {} THEN {<<>>}
    ELSE LET first == {i \in idx : \A j \in idx : rows[i].date <= rows[j].date}
         IN  UNION {{<<rows[i]>> \o s : s \in SortsOf(rows, idx \ {i})} : i \in first}

sort_values(rows) == SortsOf(rows, DOMAIN rows)

\* mutant: the window is one record short
tail_short(rows, n) ==
    IF Len(rows) <= n - 1 THEN rows ELSE SubSeq(rows, Len(rows) - n + 2, Len(rows))

\* df_sorted.tail(6)
tail(rows, n) ==
    IF Len(rows) <= n THEN rows ELSE SubSeq(rows, Len(rows) - n + 1, Len(rows))

\* Series.pct_change(): NaN first, then x[i] / x[i-1] - 1
pct_change(xs) ==
    [i \in 1..Len(xs) |->
        IF i = 1 THEN NaN
        ELSE Sub(Div(Float(xs[i]), Float(xs[i - 1])), Float(1))]

\* Series.mean(): NaN entries are skipped; NaN when nothing is left
RECURSIVE SumFrom(_, _)
SumFrom(xs, i) ==
    IF i > Len(xs) THEN Float(0)
    ELSE IF IsNaN(xs[i]) THEN SumFrom(xs, i + 1)
    ELSE Add(xs[i], SumFrom(xs, i + 1))

mean(xs) ==
    LET count == Cardinality({i \in 1..Len(xs) : ~IsNaN(xs[i])})
    IN  IF count = 0 THEN NaN ELSE Div(SumFrom(xs, 1), Float(count))

Column(rows, c) == [i \in 1..Len(rows) |-> rows[i][c]]

\* the body of forecast_metrics after line 42, for one result df_sorted of the sort
forecast_metrics(df_sorted, text, months_ahead, scenario_multiplier) ==
    IF text \in {"monthly_active_users", "monthly_revenue"}
    THEN Raise("TypeError")                             \* pct_change on str cells
    ELSE IF Len(df_sorted) = 0 THEN Raise("IndexError") \* .iloc[-1] of an empty column
    ELSE
        LET recent_data == tail(df_sorted, Window)
            growth_rate == mean(pct_change(Column(recent_data, "monthly_active_users")))
            revenue_growth == mean(pct_change(Column(recent_data, "monthly_revenue")))
            adjusted_growth == Mul(growth_rate, scenario_multiplier)
            adjusted_revenue_growth == Mul(revenue_growth, scenario_multiplier)
            last_date == CHOOSE d \in {df_sorted[i].date : i \in DOMAIN df_sorted} :
                             \A i \in DOMAIN df_sorted : df_sorted[i].date <= d
            last_mau == df_sorted[Len(df_sorted)].monthly_active_users
            last_revenue == df_sorted[Len(df_sorted)].monthly_revenue
        IN  Return(
              [i \in 1..months_ahead |->
                 [date |-> last_date + StepDays * i,
                  monthly_active_users |->
                      Mul(Float(last_mau), Pow(Add(Float(1), adjusted_growth), i)),
                  monthly_revenue |->
                      Mul(Float(last_revenue), Pow(Add(Float(1), adjusted_revenue_growth), i)),
                  type |-> "Forecast"]])

(***************************** callbacks **********************************)
Callbacks == {"update_data", "update_kpis", "update_growth_chart",
              "update_revenue_chart", "update_forecast", "update_engagement_chart"}

\* mutant: update_kpis also listens to the growth slider
Inputs_kpis_on_slider(cb) ==
    CASE cb = "update_data" -> {"upload-data.contents"}
      [] cb = "update_kpis" -> {"stored-data.data", "growth-slider.value"}
      [] cb = "update_growth_chart" -> {"stored-data.data"}
      [] cb = "update_revenue_chart" -> {"stored-data.data"}
      [] cb = "update_forecast" ->
             {"stored-data.data", "growth-slider.value", "months-slider.value"}
      [] cb = "update_engagement_chart" -> {"stored-data.data"}

\* the Input(...) of each @app.callback
Inputs(cb) ==
    CASE cb = "update_data" -> {"upload-data.contents"}
      [] cb = "update_kpis" -> {"stored-data.data"}
      [] cb = "update_growth_chart" -> {"stored-data.data"}
      [] cb = "update_revenue_chart" -> {"stored-data.data"}
      [] cb = "update_forecast" ->
             {"stored-data.data", "growth-slider.value", "months-slider.value"}
      [] cb = "update_engagement_chart" -> {"stored-data.data"}

\* the Output(...) of each @app.callback; "kpis" is the six kpi-* children,
\* which update_kpis returns together
Outputs(cb) ==
    CASE cb = "update_data" -> {"stored-data.data", "upload-status.children"}
      [] cb = "update_kpis" -> {"kpis"}
      [] cb = "update_growth_chart" -> {"growth-chart"}
      [] cb = "update_revenue_chart" -> {"revenue-chart"}
      [] cb = "update_forecast" -> {"forecast-chart"}
      [] cb = "update_engagement_chart" -> {"engagement-chart"}

Views == {"kpis", "growth-chart", "revenue-chart", "forecast-chart", "engagement-chart"}

\* callbacks the renderer schedules when a property is set
Triggered(prop) == {cb \in Callbacks : prop \in Inputs(cb)}

\* an uploaded file: kind "csv" decodes, parses and has a parseable date
\* column; the other kinds make a statement of the try block raise
FileKinds == {"csv", "undecodable", "unparsable", "nodate", "baddate"}

File(kind, text, rows) ==
    [kind |-> kind, text |-> text, rows |-> rows, filename |-> "metrics.csv"]

NoContents == [kind |-> "None", text |-> "none", rows |-> <<>>, filename |-> "None"]

Alert(color, message) == [color |-> color, message |-> message]

\* the body of update_data: <<stored-data.data, upload-status.children>>
update_data_returns(c, filename) ==
    IF c.kind = "None"
    THEN <<to_json(df_default), Alert("none", "")>>
    ELSE IF c.kind = "csv"
    THEN <<to_json(DataFrame(c.rows, c.text)), Alert("success", filename)>>
    ELSE <<to_json(df_default),
           Alert("danger",
                 CASE c.kind = "undecodable" -> "ValueError"
                   [] c.kind = "unparsable" -> "ParserError"
                   [] c.kind = "nodate" -> "KeyError"
                   [] c.kind = "baddate" -> "DateParseError")>>

\* the body of update_kpis
update_kpis_returns(jsonified_data) ==
    LET df == read_json(jsonified_data)
        metrics == calculate_metrics(df)
    IN  IF metrics.exc # "none" THEN metrics
        ELSE IF df.text = "conversion_rate" THEN Raise("ValueError")  \* :.1f of a str
        ELSE Return(<<format_f(metrics.val.mau, 0),
                      format_f(metrics.val.mau_change, 1),
                      format_f(metrics.val.revenue, 0),
                      format_f(metrics.val.revenue_change, 1),
                      format_f(metrics.val.churn_rate, 1),
                      format_f(metrics.val.conversion, 1)>>)

\* px.line / px.area / go.Bar of columns of the frame, in row order
Trace(df, name, column) ==
    [name |-> name, x |-> Column(df.rows, "date"), y |-> Column(df.rows, column)]

update_growth_chart_returns(jsonified_data) ==
    Return(<<Trace(read_json(jsonified_data), "Users", "monthly_active_users")>>)

update_revenue_chart_returns(jsonified_data) ==
    Return(<<Trace(read_json(jsonified_data), "Revenue ($)", "monthly_revenue")>>)

\* mutant: the engagement chart first computes the KPIs of the frame, so that
\* a failure of calculate_metrics takes the chart down with it
update_engagement_chart_with_kpis(jsonified_data) ==
    LET df == read_json(jsonified_data)
        metrics == calculate_metrics(df)
    IN  IF metrics.exc # "none" THEN metrics
        ELSE Return(<<Trace(df, "New Signups", "new_signups"),
                      Trace(df, "Churned Users", "churned_users")>>)

update_engagement_chart_returns(jsonified_data) ==
    LET df == read_json(jsonified_data)
    IN  Return(<<Trace(df, "New Signups", "new_signups"),
                 Trace(df, "Churned Users", "churned_users")>>)

\* the body of update_forecast, for one result df_sorted of the sort: the
\* historical trace, the forecast frame and the multiplier of the title
update_forecast_returns(jsonified_data, df_sorted, growth_multiplier, months) ==
    LET df == read_json(jsonified_data)
        df_forecast == forecast_metrics(df_sorted, df.text, months,
                                        Num(growth_multiplier, SliderTenths))
    IN  IF df_forecast.exc # "none" THEN df_forecast
        ELSE Return(<<Trace(df, "Historical MAU", "monthly_active_users"),
                      df_forecast.val,
                      growth_multiplier>>)

(***************************** the renderer ********************************)
Blank ==
    [rendered |-> FALSE,
     src |-> [columns |-> <<>>, index |-> <<>>, data |-> <<>>, text |-> "none"],
     val |-> <<>>]

\* a callback run ends: its outputs are set when it returned, left as they
\* were when it raised
Finish(cb, result) ==
    /\ raised' = [raised EXCEPT ![cb] = result.exc]
    /\ out' = [o \in Views |->
                 IF o \in Outputs(cb) /\ result.exc = "none"
                 THEN [rendered |-> TRUE, src |-> stored, val |-> result.val]
                 ELSE out[o]]
    /\ pending' = pending \ {cb}

Init ==
    /\ contents = NoContents
    /\ uploads = 0
    /\ stored = to_json(df_default)
    /\ upload_status = Alert("none", "")
    /\ growth_slider = DefaultGrowth
    /\ months_slider = DefaultMonths
    /\ out = [o \in Views |-> Blank]
    /\ raised = [cb \in Callbacks |-> "none"]
    /\ pending = {"update_data"}

(****************************** inputs ************************************)
\* uploaded files: the shapes of file that take update_data and the readers
\* of stored-data down different paths
Jan == Row(1, 1, 3, 1, 1, 2)
Feb == Row(2, 3, 1, 1, 1, 2)

IngestFiles ==
    {File("csv", "none", rows) :
        rows \in {<<>>, <<Jan>>, <<Jan, Feb>>, <<Feb, Jan>>, <<Jan, Jan>>}}
    \cup {File("csv", c, <<Jan, Feb>>) : c \in MetricColumns}
    \cup {File(k, "none", <<>>) : k \in FileKinds \ {"csv"}}

\* the reactive specification uploads four of them
Files ==
    {File("csv", "none", <<Jan>>), File("csv", "none", <<Feb, Jan>>),
     File("csv", "monthly_active_users", <<Jan, Feb>>), File("baddate", "none", <<>>)}

GrowthValues == {10, 20}
MonthValues == {1, DefaultMonths}

\* the calculator specification: frames of up to Window + ExtraRows rows
\* <<MAU, revenue>> of a row
CalcValues(n) == IF n <= ZeroRows THEN {<<0, 1>>, <<1, 3>>, <<3, 1>>} ELSE {<<1, 3>>, <<3, 1>>}
Arrangements == {"ascending", "descending", "repeated"}

DateAt(a, i, n) ==
    CASE a = "ascending" -> i
      [] a = "descending" -> n + 1 - i
      [] a = "repeated" -> IF i = n /\ n > 1 THEN n - 1 ELSE i

CalcFrames(n) ==
    {DataFrame([i \in 1..n |-> Row(DateAt(a, i, n), v[i][1], v[i][2], 1, 1, 2)], "none") :
        a \in Arrangements, v \in [1..n -> CalcValues(n)]}
CalcGrowthValues == {5, 10, 20}

(****************************** actions ***********************************)
UploadFrom(files, limit) ==
    /\ uploads < limit
    /\ \E f \in files : contents' = f
    /\ uploads' = uploads + 1
    /\ pending' = pending \cup Triggered("upload-data.contents")
    /\ UNCHANGED <<stored, upload_status, growth_slider, months_slider, out, raised>>

Upload == UploadFrom(Files, MaxUploads)

UploadAny == UploadFrom(IngestFiles, MaxIngests)

SetGrowth ==
    /\ \E g \in GrowthValues \ {growth_slider} : growth_slider' = g
    /\ pending' = pending \cup Triggered("growth-slider.value")
    /\ UNCHANGED <<contents, uploads, stored, upload_status, months_slider, out, raised>>

SetMonths ==
    /\ \E m \in MonthValues \ {months_slider} : months_slider' = m
    /\ pending' = pending \cup Triggered("months-slider.value")
    /\ UNCHANGED <<contents, uploads, stored, upload_status, growth_slider, out, raised>>

update_data ==
    /\ "update_data" \in pending
    /\ LET r == update_data_returns(contents, contents.filename)
       IN  /\ stored' = r[1]
           /\ upload_status' = r[2]
    /\ raised' = [raised EXCEPT !["update_data"] = "none"]
    /\ pending' = (pending \ {"update_data"}) \cup Triggered("stored-data.data")
    /\ UNCHANGED <<contents, uploads, growth_slider, months_slider, out>>

update_kpis ==
    /\ "update_kpis" \in pending
    /\ Finish("update_kpis", update_kpis_returns(stored))
    /\ UNCHANGED <<contents, uploads, stored, upload_status, growth_slider, months_slider>>

update_growth_chart ==
    /\ "update_growth_chart" \in pending
    /\ Finish("update_growth_chart", update_growth_chart_returns(stored))
    /\ UNCHANGED <<contents, uploads, stored, upload_status, growth_slider, months_slider>>

update_revenue_chart ==
    /\ "update_revenue_chart" \in pending
    /\ Finish("update_revenue_chart", update_revenue_chart_returns(stored))
    /\ UNCHANGED <<contents, uploads, stored, upload_status, growth_slider, months_slider>>

update_forecast ==
    /\ "update_forecast" \in pending
    /\ \E df_sorted \in sort_values(read_json(stored).rows) :
          Finish("update_forecast",
                 update_forecast_returns(stored, df_sorted, growth_slider, months_slider))
    /\ UNCHANGED <<contents, uploads, stored, upload_status, growth_slider, months_slider>>

update_engagement_chart ==
    /\ "update_engagement_chart" \in pending
    /\ Finish("update_engagement_chart", update_engagement_chart_returns(stored))
    /\ UNCHANGED <<contents, uploads, stored, upload_status, growth_slider, months_slider>>

Next ==
    \/ Upload
    \/ SetGrowth
    \/ SetMonths
    \/ update_data
    \/ update_kpis
    \/ update_growth_chart
    \/ update_revenue_chart
    \/ update_forecast
    \/ update_engagement_chart

Spec == Init /\ [][Next]_vars

\* the ingestion path alone: uploads and update_data
NextIngest ==
    \/ UploadAny
    \/ update_data

SpecIngest == Init /\ [][NextIngest]_vars

\* the two calculators, applied to every frame of CalcFrames: the frame has
\* been uploaded and committed and the three plain charts have been redrawn
\* from it; update_kpis and update_forecast have not run yet
InitCalc ==
    /\ \E n \in 1..(Window + ExtraRows) :
          \E df \in CalcFrames(n) :
              /\ contents = File("csv", df.text, df.rows)
              /\ stored = to_json(df)
    /\ uploads = 1
    /\ upload_status = Alert("success", contents.filename)
    /\ growth_slider \in CalcGrowthValues
    /\ months_slider \in 1..MaxMonths
    /\ out = [o \in Views |->
                CASE o = "growth-chart" ->
                       [rendered |-> TRUE, src |-> stored,
                        val |-> update_growth_chart_returns(stored).val]
                  [] o = "revenue-chart" ->
                       [rendered |-> TRUE, src |-> stored,
                        val |-> update_revenue_chart_returns(stored).val]
                  [] o = "engagement-chart" ->
                       [rendered |-> TRUE, src |-> stored,
                        val |-> update_engagement_chart_returns(stored).val]
                  [] OTHER -> Blank]
    /\ raised = [cb \in Callbacks |-> "none"]
    /\ pending = {"update_kpis", "update_forecast"}

NextCalc ==
    \/ update_kpis
    \/ update_forecast

SpecCalc == InitCalc /\ [][NextCalc]_vars

(******************************* claims ***********************************)
Readers == Callbacks \ {"update_data"}
DatasetReaders == Readers \ {"update_forecast"}
ViewOf(cb) == CHOOSE o \in Views : o \in Outputs(cb)

\* the step is a run of callback cb
Ran(cb) == cb \in pending /\ cb \notin pending'

\* the page's first update_data (contents None) has run
Loaded == ~(uploads = 0 /\ "update_data" \in pending)

Frame == read_json(stored)

\* C1: a failed ingestion leaves the stored Dataset as it was before the upload.
C1_FailedUploadKeepsDataset ==
    [][(Ran("update_data") /\ contents.kind \in FileKinds \ {"csv"}) => stored' = stored]_vars

\* C2: an upload that fails a schema check (no date column, unparseable date,
\* a non-numeric metric column) is not committed and a failure is reported.
FailsSchema(c) ==
    \/ c.kind \in {"nodate", "baddate"}
    \/ c.kind = "csv" /\ c.text \in MetricColumns

C2_SchemaFailureNotCommitted ==
    [][(Ran("update_data") /\ FailsSchema(contents)) =>
          /\ stored' # to_json(DataFrame(contents.rows, contents.text))
          /\ upload_status'.color = "danger"]_vars

\* C3: the stored Dataset is always sorted by date ascending without
\* duplicate dates.
C3_StoredSortedUnique ==
    \A i, j \in DOMAIN Frame.rows : i < j => Frame.rows[i].date < Frame.rows[j].date

\* C4: once an upload is committed and the recomputations it triggered have
\* run, each of the five outputs is derived from the stored Dataset.
C4_ViewsFromCommitted ==
    (Loaded /\ pending = {}) =>
        \A o \in Views : out[o].rendered /\ out[o].src = stored

\* C5: a slider change alone schedules update_forecast and nothing else and
\* leaves the Dataset and the outputs alone; a callback that reads only the
\* Dataset is scheduled only by the step that writes stored-data, which
\* schedules all five readers; an output changes only in a run of its callback.
C5_SliderTriggersForecastOnly ==
    [][/\ (growth_slider' # growth_slider \/ months_slider' # months_slider) =>
            /\ pending' = pending \cup {"update_forecast"}
            /\ stored' = stored
            /\ out' = out
       /\ \A cb \in DatasetReaders :
            /\ (cb \notin pending /\ cb \in pending') => Ran("update_data")
            /\ out'[ViewOf(cb)] # out[ViewOf(cb)] => Ran(cb)
       /\ Ran("update_data") => Readers \subseteq pending'
       /\ out'["forecast-chart"] # out["forecast-chart"] => Ran("update_forecast")]_vars

C5_Witness ==
    /\ uploads = 0
    /\ pending = {}
    /\ growth_slider # DefaultGrowth
    /\ out["forecast-chart"].rendered
    /\ out["forecast-chart"].val[3] = growth_slider
    /\ \A cb \in DatasetReaders : out[ViewOf(cb)].rendered /\ out[ViewOf(cb)].src = stored

\* C6: on a Dataset of exactly one record neither update_kpis nor
\* update_forecast lets an exception escape, and the forecast holds no
\* undefined value.
Forecast == out["forecast-chart"].val[2]

C6_OneRecordSignalled ==
    Len(Frame.rows) = 1 =>
        /\ "update_kpis" \notin pending => raised["update_kpis"] = "none"
        /\ "update_forecast" \notin pending =>
              /\ raised["update_forecast"] = "none"
              /\ out["forecast-chart"].rendered =>
                    \A i \in DOMAIN Forecast :
                        /\ ~IsNaN(Forecast[i].monthly_active_users)
                        /\ ~IsNaN(Forecast[i].monthly_revenue)

\* C7: when the second-to-last record has monthly_active_users = 0, no KPI
\* panel is rendered whose mau_change or churn_rate is NaN or infinite.
C7_ZeroPreviousSignalled ==
    (/\ Len(Frame.rows) >= 2
     /\ Frame.rows[Len(Frame.rows) - 1].monthly_active_users = 0
     /\ out["kpis"].rendered) =>
        /\ out["kpis"].val[2].text = "number"
        /\ out["kpis"].val[5].text = "number"

\* C8: no projected monthly_active_users or monthly_revenue is negative.
C8_ForecastNonNegative ==
    out["forecast-chart"].rendered =>
        \A i \in DOMAIN Forecast :
            /\ Forecast[i].monthly_active_users.n >= 0
            /\ Forecast[i].monthly_revenue.n >= 0

\* C9: when update_kpis or update_forecast has failed on the stored Dataset,
\* every other reader that has run has rendered its output from that same
\* Dataset (the three plain charts always do, KPI panel and forecast when they
\* did not fail themselves), and the failing run changed neither the stored
\* Dataset nor another output nor another callback's schedule.
Failed(cb) == cb \notin pending /\ raised[cb] # "none"

FailureIsLocal ==
    \A f \in {"update_kpis", "update_forecast"} :
        (Loaded /\ Failed(f)) =>
            \A cb \in Readers \ {f} :
                cb \notin pending =>
                    /\ cb \in DatasetReaders \ {"update_kpis"} => raised[cb] = "none"
                    /\ raised[cb] = "none" =>
                           out[ViewOf(cb)].rendered /\ out[ViewOf(cb)].src = stored

RECURSIVE ByDate(_, _)
ByDate(rows, idx) ==
    IF idx = {} THEN {<<>>}
    ELSE LET latest == {i \in idx : \A j \in idx : rows[j].date <= rows[i].date}
         IN  UNION {{Append(s, rows[i]) : s \in ByDate(rows, idx \ {i})} : i \in latest}

Change(s, k) ==
    Div(Float(s[k].monthly_active_users - s[k - 1].monthly_active_users),
        Float(s[k - 1].monthly_active_users))

RECURSIVE ChangeSum(_, _)
ChangeSum(s, K) ==
    IF K = {} THEN Float(0)
    ELSE LET k == CHOOSE x \in K : TRUE
         IN  Add(Change(s, k), ChangeSum(s, K \ {k}))

MeanChange(s) ==
    LET n == Len(s)
        first == IF n > 6 THEN n - 5 ELSE 1
        K == {k \in (first + 1)..n : ~IsNaN(Change(s, k))}
    IN  IF K = {} THEN NaN ELSE Div(ChangeSum(s, K), Float(Cardinality(K)))

ClosedForm(s, f, multiplier) ==
    \A i \in DOMAIN f :
        /\ f[i].type = "Forecast"
        /\ f[i].date = s[Len(s)].date + 30 * i
        /\ i > 1 => f[i - 1].date < f[i].date
        /\ f[i].monthly_active_users =
              Mul(Float(s[Len(s)].monthly_active_users),
                  Pow(Add(Float(1), Mul(MeanChange(s), multiplier)), i))

====
